---- MODULE Spec2Model ----
(***************************************************************************)
(* A model of the directory-listing parser of unt-files                    *)
(* (src/src/utils/directoryParser.js).                                     *)
(*                                                                         *)
(* JavaScript strings are TLA+ strings; the string methods and the regular *)
(* expressions the parser uses are operators that compute what the method *)
(* computes.  The alphabet is printable ASCII plus the white space \t, \n, *)
(* \r, \f.  A JavaScript exception is an explicit outcome: an operator     *)
(* that can throw returns [threw |-> BOOLEAN, val |-> ...].                *)
(***************************************************************************)
EXTENDS Integers, Sequences, FiniteSets, TLC

(***************************************************************************)
(* String primitives (String.prototype)                                    *)
(***************************************************************************)

\* s.charAt(i - 1): the i-th character (1-based), "" outside the string
CharAt(s, i) == IF i >= 1 /\ i <= Len(s) THEN SubSeq(s, i, i) ELSE ""

\* s.substring(from - 1): the text from the from-th character on
SubstringFrom(s, from) == SubSeq(s, from, Len(s))

\* s.startsWith(p)
StartsWith(s, p) == Len(p) <= Len(s) /\ SubSeq(s, 1, Len(p)) = p

\* s.endsWith(p)
EndsWith(s, p) ==
  Len(p) <= Len(s) /\ SubSeq(s, Len(s) - Len(p) + 1, Len(s)) = p

\* the characters of s, in order
Chars(s) == [i \in 1..Len(s) |-> SubSeq(s, i, i)]

\* the 1-based positions at which sub occurs in s
Occurrences(s, sub) ==
  LET cs == Chars(s)
      cb == Chars(sub)
  IN { i \in 1..(Len(s) - Len(sub) + 1) :
         \A k \in 1..Len(sub) : cs[i + k - 1] = cb[k] }

\* s.includes(sub)
Includes(s, sub) ==
  \E i \in 1..(Len(s) - Len(sub) + 1) : SubSeq(s, i, i + Len(sub) - 1) = sub

Min(S) == CHOOSE m \in S : \A n \in S : m <= n

Max(S) == CHOOSE m \in S : \A n \in S : m >= n

\* s.indexOf(sub): 0-based index of the first occurrence, -1 when there is none
IndexOf(s, sub) ==
  IF Occurrences(s, sub) = {} THEN -1 ELSE Min(Occurrences(s, sub)) - 1

UpperLetters == "ABCDEFGHIJKLMNOPQRSTUVWXYZ"

LowerLetters == "abcdefghijklmnopqrstuvwxyz"

Digits == "0123456789"

CharsOf(s) == { SubSeq(s, i, i) : i \in 1..Len(s) }

\* the 1-based position of character c in the table t (c occurs in t)
PosIn(t, c) == CHOOSE i \in 1..Len(t) : SubSeq(t, i, i) = c

LowerOf == [c \in CharsOf(UpperLetters) |-> CharAt(LowerLetters, PosIn(UpperLetters, c))]

UpperOf == [c \in CharsOf(LowerLetters) |-> CharAt(UpperLetters, PosIn(LowerLetters, c))]

DigitSet == CharsOf(Digits)

LowerSet == CharsOf(LowerLetters)

UpperSet == CharsOf(UpperLetters)

IsDigit(c) == c \in DigitSet

IsLower(c) == c \in LowerSet

IsUpper(c) == c \in UpperSet

IsAlnum(c) == IsDigit(c) \/ IsLower(c) \/ IsUpper(c)

\* the class \s of a regular expression, and what trim() strips
SpaceSet == {" ", "\t", "\n", "\r", "\f"}

IsSpace(c) == c \in SpaceSet

\* the characters the regular expression's . does not match
IsLineTerminator(c) == c \in {"\n", "\r"}

RECURSIVE MapChars(_, _, _)
\* s with every character c from position i on replaced by F[c] when c is in
\* F's domain
MapChars(F, s, i) ==
  IF i > Len(s) THEN ""
  ELSE LET c == SubSeq(s, i, i)
       IN (IF c \in DOMAIN F THEN F[c] ELSE c) \o MapChars(F, s, i + 1)

\* s.toLowerCase()
ToLowerCase(s) == MapChars(LowerOf, s, 1)

\* s.toUpperCase()
ToUpperCase(s) == MapChars(UpperOf, s, 1)

\* s.trim()
Trim(s) ==
  LET keep == { i \in 1..Len(s) : ~IsSpace(SubSeq(s, i, i)) }
  IN IF keep = {} THEN "" ELSE SubSeq(s, Min(keep), Max(keep))

RECURSIVE SplitFrom(_, _, _, _)
\* s.split(sep) for a one-character separator, from position i on, cur being
\* the piece read so far
SplitFrom(s, sep, i, cur) ==
  IF i > Len(s) THEN <<cur>>
  ELSE IF SubSeq(s, i, i) = sep
       THEN <<cur>> \o SplitFrom(s, sep, i + 1, "")
       ELSE SplitFrom(s, sep, i + 1, cur \o SubSeq(s, i, i))

\* s.split(sep)
Split(s, sep) == SplitFrom(s, sep, 1, "")

RECURSIVE Join(_, _)
\* parts.join(sep)
Join(parts, sep) ==
  IF Len(parts) = 0 THEN ""
  ELSE IF Len(parts) = 1 THEN parts[1]
  ELSE parts[1] \o sep \o Join(Tail(parts), sep)

(***************************************************************************)
(* isNavigationLink                                                        *)
(***************************************************************************)

isNavigationLink(href, filename) ==
  \/ Includes(href, "..") \/ Includes(filename, "Parent Directory")
  \/ Includes(href, "?C=")
  \/ StartsWith(href, "?") \/ StartsWith(href, "#")

(***************************************************************************)
(* parseListingLine and convertSizeToBytes                                 *)
(***************************************************************************)

\* how many digits s holds in a row from position i on
RECURSIVE DigitRun(_, _)
DigitRun(s, i) == IF IsDigit(CharAt(s, i)) THEN 1 + DigitRun(s, i + 1) ELSE 0

\* how many white-space characters s holds in a row from position i on
RECURSIVE SpaceRun(_, _)
SpaceRun(s, i) == IF IsSpace(CharAt(s, i)) THEN 1 + SpaceRun(s, i + 1) ELSE 0

\* whether s holds exactly n digits' worth of \d{n} at position i
DigitsAt(s, i, n) == \A k \in 0..(n - 1) : IsDigit(CharAt(s, i + k))

\* the length of the match of \d{4}-\d{2}-\d{2}\s+\d{2}:\d{2} at position i
\* of s, 0 when it does not match there (\s+ is greedy, and what follows it
\* is a digit, so it takes the whole run of white space)
DateMatchLen(s, i) ==
  LET w == SpaceRun(s, i + 10)
  IN IF /\ DigitsAt(s, i, 4) /\ CharAt(s, i + 4) = "-"
        /\ DigitsAt(s, i + 5, 2) /\ CharAt(s, i + 7) = "-"
        /\ DigitsAt(s, i + 8, 2) /\ w >= 1
        /\ DigitsAt(s, i + 10 + w, 2) /\ CharAt(s, i + 12 + w) = ":"
        /\ DigitsAt(s, i + 13 + w, 2)
     THEN 15 + w
     ELSE 0

\* s.match(/(\d{4}-\d{2}-\d{2}\s+\d{2}:\d{2})/): the leftmost match, "" for
\* null (the pattern matches no empty text)
DateMatch(s) ==
  LET at == { i \in 1..Len(s) : DateMatchLen(s, i) > 0 }
  IN IF at = {} THEN ""
     ELSE SubSeq(s, Min(at), Min(at) + DateMatchLen(s, Min(at)) - 1)

\* whether t as a whole matches \d+(?:\.\d+)?[KMG]?|\d+|-
IsSizeToken(t) ==
  LET n == DigitRun(t, 1)
      f == IF CharAt(t, n + 1) = "." THEN DigitRun(t, n + 2) ELSE 0
      e == IF f > 0 THEN n + 1 + f ELSE n
  IN \/ t = "-"
     \/ /\ n >= 1
        /\ \/ Len(t) = e
           \/ Len(t) = e + 1 /\ CharAt(t, e + 1) \in {"K", "M", "G"}

\* s.match(/\s+(\d+(?:\.\d+)?[KMG]?|\d+|-)\s*$/)[1], "" for null.  The
\* token holds no white space and the match ends at the end of s, so the
\* token is what follows the last white space of s less its trailing white
\* space, and at least one white-space character comes before it.
SizeMatch(s) ==
  LET keep == { i \in 1..Len(s) : ~IsSpace(SubSeq(s, i, i)) }
      last == IF keep = {} THEN 0 ELSE Max(keep)
      gaps == { i \in 1..last : IsSpace(SubSeq(s, i, i)) }
      tok  == IF gaps = {} THEN "" ELSE SubSeq(s, Max(gaps) + 1, last)
  IN IF tok # "" /\ IsSizeToken(tok) THEN tok ELSE ""

RECURSIVE DigitsValue(_, _)
\* the number the digits d denote, after the digits read so far (acc)
DigitsValue(d, acc) ==
  IF d = "" THEN acc
  ELSE DigitsValue(Tail(d), 10 * acc + (PosIn(Digits, Head(d)) - 1))

RECURSIVE Pow(_, _)
Pow(b, n) == IF n = 0 THEN 1 ELSE b * Pow(b, n - 1)

\* Math.floor(num * mult) for num = parseFloat of the text matched by
\* ^(\d+(?:\.\d+)?) in sizeStr: the digits before and after the point, as an
\* exact fraction whole + frac / 10^f.  mult is a power of two, which a
\* double multiplies exactly, and the quotient is exact for the short tokens
\* of a listing.  The product is summed in parts, mult = q * 10^f + r, to
\* stay within the model checker's 32-bit integers.
FloorScaled(sizeStr, mult) ==
  LET n == DigitRun(sizeStr, 1)
      f == IF CharAt(sizeStr, n + 1) = "." THEN DigitRun(sizeStr, n + 2) ELSE 0
      whole == DigitsValue(SubSeq(sizeStr, 1, n), 0)
      frac  == DigitsValue(SubSeq(sizeStr, n + 2, n + 1 + f), 0)
      q == mult \div Pow(10, f)
      r == mult % Pow(10, f)
  IN whole * mult + frac * q + (frac * r) \div Pow(10, f)

\* convertSizeToBytes with powers of 1000
convertSizeToBytesDecimal(sizeStr) ==
  IF DigitRun(sizeStr, 1) = 0 THEN 0
  ELSE LET unit == ToUpperCase(CharAt(sizeStr, Len(sizeStr)))
       IN CASE unit = "K" -> FloorScaled(sizeStr, 1000)
            [] unit = "M" -> FloorScaled(sizeStr, 1000 * 1000)
            [] unit = "G" -> FloorScaled(sizeStr, 1000 * 1000 * 1000)
            [] OTHER -> FloorScaled(sizeStr, 1)

convertSizeToBytes(sizeStr) ==
  IF DigitRun(sizeStr, 1) = 0 THEN 0
  ELSE LET unit == ToUpperCase(CharAt(sizeStr, Len(sizeStr)))
       IN CASE unit = "K" -> FloorScaled(sizeStr, 1024)
            [] unit = "M" -> FloorScaled(sizeStr, 1024 * 1024)
            [] unit = "G" -> FloorScaled(sizeStr, 1024 * 1024 * 1024)
            [] OTHER -> FloorScaled(sizeStr, 1)

parseListingLine(lineText, filename) ==
  LET filenameIndex == IndexOf(lineText, filename)
      afterFilename == SubstringFrom(lineText, filenameIndex + Len(filename) + 1)
      dateMatch == DateMatch(afterFilename)
      sizeStr == SizeMatch(afterFilename)
  IN IF filenameIndex = -1
     THEN [date |-> "Unknown", size |-> "Unknown", sizeBytes |-> 0]
     ELSE [date |-> IF dateMatch # "" THEN dateMatch ELSE "Unknown",
           size |-> IF sizeStr = "" THEN "Unknown"
                    ELSE IF sizeStr = "-" THEN "Directory" ELSE sizeStr,
           sizeBytes |-> IF sizeStr = "" \/ sizeStr = "-" THEN 0
                         ELSE convertSizeToBytes(sizeStr)]

(***************************************************************************)
(* determineFileType                                                       *)
(***************************************************************************)

\* the own properties of the typeMap object literal
typeMap ==
  [pdf |-> "document", txt |-> "document", doc |-> "document",
   docx |-> "document", mp4 |-> "video", mpg |-> "video", mpeg |-> "video",
   mov |-> "video", avi |-> "video", zip |-> "archive", rar |-> "archive",
   htm |-> "webpage", html |-> "webpage"] @@ ("7z" :> "archive")

\* the properties an object literal inherits from Object.prototype: a
\* property read typeMap[key] finds them when typeMap has no own property key
ObjectPrototypeKeys ==
  {"constructor", "__proto__", "hasOwnProperty", "isPrototypeOf",
   "propertyIsEnumerable", "toLocaleString", "toString", "valueOf",
   "__defineGetter__", "__defineSetter__", "__lookupGetter__",
   "__lookupSetter__"}

\* what stands for the inherited value (a function, or Object.prototype
\* itself): not a string, and truthy
InheritedValue(key) == "Object.prototype." \o key

\* typeMap[key] || 'document'
TypeMapLookup(key) ==
  IF key \in DOMAIN typeMap THEN typeMap[key]
  ELSE IF key \in ObjectPrototypeKeys THEN InheritedValue(key)
  ELSE "document"

\* filename.split('.').pop().toLowerCase()
Extension(filename) ==
  LET parts == Split(filename, ".") IN ToLowerCase(parts[Len(parts)])

determineFileType(filename, href) ==
  IF EndsWith(href, "/") THEN "folder" ELSE TypeMapLookup(Extension(filename))

(***************************************************************************)
(* extractPersonFromFilename                                               *)
(***************************************************************************)

\* s.replace(/\.[^.]+$/, ''): [^.] matches no dot, so the match starts at
\* the last dot, and needs one character after it
StripExtension(s) ==
  LET dots == Occurrences(s, ".")
  IN IF dots # {} /\ Max(dots) < Len(s) THEN SubSeq(s, 1, Max(dots) - 1) ELSE s

\* the patterns array: prefix is /^TJ\d+/, anywhere is /<key>/i, and between
\* is /<key>.*<key2>/i
patterns ==
  << [kind |-> "prefix", key |-> "TJ", key2 |-> "", name |-> "Timothy Jackson"],
     [kind |-> "anywhere", key |-> "jackson", key2 |-> "", name |-> "Timothy Jackson"],
     [kind |-> "anywhere", key |-> "ewell", key2 |-> "", name |-> "Philip Ewell"],
     [kind |-> "anywhere", key |-> "walls", key2 |-> "", name |-> "Levi Walls"],
     [kind |-> "anywhere", key |-> "brand", key2 |-> "", name |-> "Benjamin Brand"],
     [kind |-> "anywhere", key |-> "graf", key2 |-> "", name |-> "Benjamin Graf"],
     [kind |-> "anywhere", key |-> "gain", key2 |-> "", name |-> "Rachel Gain"],
     [kind |-> "anywhere", key |-> "heidlberger", key2 |-> "", name |-> "Frank Heidlberger"],
     [kind |-> "between", key |-> "rebecca", key2 |-> "schwinden",
      name |-> "Rebecca Dowd Geoffroy-Schwinden"],
     [kind |-> "anywhere", key |-> "cowley", key2 |-> "", name |-> "Jennifer Cowley"],
     [kind |-> "anywhere", key |-> "ishiyama", key2 |-> "", name |-> "John Ishiyama"],
     [kind |-> "anywhere", key |-> "slottow", key2 |-> "", name |-> "Stephen Slottow"],
     [kind |-> "anywhere", key |-> "chung", key2 |-> "", name |-> "Andrew Chung"],
     [kind |-> "anywhere", key |-> "bakulina", key2 |-> "", name |-> "Ellen Bakulina"],
     [kind |-> "anywhere", key |-> "kohanski", key2 |-> "", name |-> "Peter Kohanski"],
     [kind |-> "anywhere", key |-> "chaouat", key2 |-> "", name |-> "Bruno Chaouat"] >>

\* pattern.regex.test(s).  /^TJ\d+/ has no i flag: it is case-sensitive.
\* The . of /Rebecca.*Schwinden/i matches no line terminator.
PatternTest(pattern, s) ==
  CASE pattern.kind = "prefix" ->
         StartsWith(s, pattern.key) /\ IsDigit(CharAt(s, Len(pattern.key) + 1))
    [] pattern.kind = "anywhere" -> Includes(ToLowerCase(s), pattern.key)
    [] OTHER ->
         LET low == ToLowerCase(s)
         IN \E i \in Occurrences(low, pattern.key) :
              \E j \in Occurrences(low, pattern.key2) :
                /\ j >= i + Len(pattern.key)
                /\ \A k \in (i + Len(pattern.key))..(j - 1) :
                     ~IsLineTerminator(CharAt(low, k))

\* part.charAt(0).toUpperCase() + part.slice(1).toLowerCase()
TitleCase(part) ==
  ToUpperCase(CharAt(part, 1)) \o ToLowerCase(SubstringFrom(part, 2))

extractPersonFromFilename(filename) ==
  LET nameWithoutExt == StripExtension(filename)
      hits == { i \in 1..Len(patterns) : PatternTest(patterns[i], nameWithoutExt) }
      parts == Split(nameWithoutExt, "_")
  IN IF hits # {} THEN patterns[Min(hits)].name
     ELSE IF Includes(nameWithoutExt, "_") /\ Len(parts) >= 2
          THEN Join([i \in 1..Len(parts) |-> TitleCase(parts[i])], " ")
          ELSE "Unknown"

(***************************************************************************)
(* generateFileId                                                          *)
(***************************************************************************)

\* the characters with code 32 to 95, in order
AsciiFrom32 ==
  " !\"#$%&'()*+,-./0123456789:;<=>?@ABCDEFGHIJKLMNOPQRSTUVWXYZ[\\]^_"

\* the characters with code 97 to 126, in order (the model's alphabet leaves
\* out the grave accent, code 96)
AsciiFrom97 == "abcdefghijklmnopqrstuvwxyz{|}~"

\* s.charCodeAt(0) of every character of the alphabet
CharCode ==
  [c \in CharsOf(AsciiFrom32) |-> PosIn(AsciiFrom32, c) + 31]
    @@ [c \in CharsOf(AsciiFrom97) |-> PosIn(AsciiFrom97, c) + 96]
    @@ ("\t" :> 9) @@ ("\n" :> 10) @@ ("\f" :> 12) @@ ("\r" :> 13)

Base64Alphabet ==
  "ABCDEFGHIJKLMNOPQRSTUVWXYZabcdefghijklmnopqrstuvwxyz0123456789+/"

\* the base64 digit of a 6-bit value
B64(v) == CharAt(Base64Alphabet, v + 1)

RECURSIVE Base64From(_, _)
\* the base64 text of the bytes of s from position i on: three bytes give
\* four digits, and a last group of one or two bytes is padded with =
Base64From(s, i) ==
  LET left == Len(s) - i + 1
      b1 == CharCode[CharAt(s, i)]
      b2 == IF left >= 2 THEN CharCode[CharAt(s, i + 1)] ELSE 0
      b3 == IF left >= 3 THEN CharCode[CharAt(s, i + 2)] ELSE 0
      d1 == b1 \div 4
      d2 == (b1 % 4) * 16 + b2 \div 16
      d3 == (b2 % 16) * 4 + b3 \div 64
      d4 == b3 % 64
  IN IF left <= 0 THEN ""
     ELSE IF left = 1 THEN B64(d1) \o B64(d2) \o "=="
     ELSE IF left = 2 THEN B64(d1) \o B64(d2) \o B64(d3) \o "="
     ELSE B64(d1) \o B64(d2) \o B64(d3) \o B64(d4) \o Base64From(s, i + 3)

\* btoa(s): throws InvalidCharacterError when a character's code is above
\* 255 (no character of the alphabet is)
Btoa(s) ==
  IF \E i \in 1..Len(s) : CharAt(s, i) \notin DOMAIN CharCode
  THEN [threw |-> TRUE, val |-> ""]
  ELSE [threw |-> FALSE, val |-> Base64From(s, 1)]

RECURSIVE AlnumFrom(_, _)
\* s.replace(/[^a-zA-Z0-9]/g, '') from position i on: s without the
\* characters that are neither letters nor digits
AlnumFrom(s, i) ==
  IF i > Len(s) THEN ""
  ELSE (IF IsAlnum(CharAt(s, i)) THEN CharAt(s, i) ELSE "") \o AlnumFrom(s, i + 1)

\* the length the id is cut to
IdLength == 16

generateFileId(filename, href) ==
  LET combined == filename \o href
      enc == Btoa(combined)
      clean == AlnumFrom(enc.val, 1)
  IN [threw |-> enc.threw,
      val |-> IF Len(clean) > IdLength THEN SubSeq(clean, 1, IdLength) ELSE clean]

(***************************************************************************)
(* cleanDisplayName                                                        *)
(***************************************************************************)

HexDigits == "0123456789ABCDEF"

HexSet == CharsOf(HexDigits) \cup CharsOf("abcdef")

IsHex(c) == c \in HexSet

HexValue(c) == PosIn(HexDigits, ToUpperCase(c)) - 1

\* the character with code v, for the codes of the alphabet
CharOfCode(v) == CHOOSE c \in DOMAIN CharCode : CharCode[c] = v

RECURSIVE DecodeFrom(_, _)
\* decodeURIComponent(s) from position i on.  A % that two hex digits do not
\* follow throws URIError, and so does an escaped byte above 127 that starts
\* no well-formed UTF-8 sequence; the well-formed sequences stand for
\* characters outside the alphabet and are no input of the model.  An escaped
\* control character outside the alphabet is left as it is written.
DecodeFrom(s, i) ==
  IF i > Len(s) THEN [threw |-> FALSE, val |-> ""]
  ELSE IF CharAt(s, i) # "%"
       THEN LET rest == DecodeFrom(s, i + 1)
            IN [threw |-> rest.threw, val |-> CharAt(s, i) \o rest.val]
       ELSE IF ~(IsHex(CharAt(s, i + 1)) /\ IsHex(CharAt(s, i + 2)))
            THEN [threw |-> TRUE, val |-> ""]
            ELSE LET v == 16 * HexValue(CharAt(s, i + 1)) + HexValue(CharAt(s, i + 2))
                     rest == DecodeFrom(s, i + 3)
                 IN IF v >= 128 THEN [threw |-> TRUE, val |-> ""]
                    ELSE [threw |-> rest.threw,
                          val |-> (IF \E c \in DOMAIN CharCode : CharCode[c] = v
                                   THEN CharOfCode(v)
                                   ELSE SubSeq(s, i, i + 2)) \o rest.val]

decodeURIComponent(s) ==
  LET r == DecodeFrom(s, 1)
  IN [threw |-> r.threw, val |-> IF r.threw THEN "" ELSE r.val]

RECURSIVE CollapseSpaces(_, _)
\* s.replace(/\s+/g, ' ') from position i on
CollapseSpaces(s, i) ==
  IF i > Len(s) THEN ""
  ELSE IF IsSpace(CharAt(s, i))
       THEN " " \o CollapseSpaces(s, i + SpaceRun(s, i))
       ELSE CharAt(s, i) \o CollapseSpaces(s, i + 1)

cleanDisplayName(filename) ==
  LET decoded == decodeURIComponent(filename)
      noExt == StripExtension(decoded.val)
      spaced == MapChars("_" :> " ", noExt, 1)
  IN [threw |-> decoded.threw,
      val |-> IF decoded.threw THEN "" ELSE Trim(CollapseSpaces(spaced, 1))]

(***************************************************************************)
(* generateKeywords                                                        *)
(***************************************************************************)

RECURSIVE SplitSpacesFrom(_, _, _)
\* s.split(/\s+/) from position i on, cur being the piece read so far
SplitSpacesFrom(s, i, cur) ==
  IF i > Len(s) THEN <<cur>>
  ELSE IF IsSpace(CharAt(s, i))
       THEN <<cur>> \o SplitSpacesFrom(s, i + SpaceRun(s, i), "")
       ELSE SplitSpacesFrom(s, i + 1, cur \o CharAt(s, i))

\* s.split(/\s+/)
SplitSpaces(s) == SplitSpacesFrom(s, 1, "")

\* [...new Set(seq)]: the first occurrence of every element, in order
Dedupe(seq) ==
  LET first == { i \in 1..Len(seq) : \A j \in 1..(i - 1) : seq[j] # seq[i] }
      Rank(i) == Cardinality({ j \in first : j <= i })
  IN [k \in 1..Cardinality(first) |-> seq[CHOOSE i \in first : Rank(i) = k]]

\* replace(/[^a-z0-9\s]/g, ' ') as a map of characters
BlankNonWord ==
  [c \in (DOMAIN CharCode) \ (LowerSet \cup DigitSet \cup SpaceSet) |-> " "]

\* generateKeywords without keywords.push(fileType) of line 308
generateKeywordsWithoutType(filename, fileType, person) ==
  LET low == ToLowerCase(filename)
      LongWord(w) == Len(w) > 2
      filenameWords == SelectSeq(SplitSpaces(MapChars(BlankNonWord, low, 1)), LongWord)
      personWords == IF person # "Unknown" THEN SplitSpaces(ToLowerCase(person))
                     ELSE << >>
      deposition == IF Includes(low, "deposition")
                    THEN <<"testimony", "legal", "court">> ELSE << >>
      motion == IF Includes(low, "motion")
                THEN <<"legal", "court", "filing">> ELSE << >>
      exhibit == IF Includes(low, "exhibit")
                 THEN <<"evidence", "legal", "court">> ELSE << >>
  IN Dedupe(filenameWords \o personWords \o deposition \o motion \o exhibit)

generateKeywords(filename, fileType, person) ==
  LET low == ToLowerCase(filename)
      LongWord(w) == Len(w) > 2
      filenameWords == SelectSeq(SplitSpaces(MapChars(BlankNonWord, low, 1)), LongWord)
      personWords == IF person # "Unknown" THEN SplitSpaces(ToLowerCase(person))
                     ELSE << >>
      deposition == IF Includes(low, "deposition")
                    THEN <<"testimony", "legal", "court">> ELSE << >>
      motion == IF Includes(low, "motion")
                THEN <<"legal", "court", "filing">> ELSE << >>
      exhibit == IF Includes(low, "exhibit")
                 THEN <<"evidence", "legal", "court">> ELSE << >>
  IN Dedupe(filenameWords \o <<fileType>> \o personWords
              \o deposition \o motion \o exhibit)

(***************************************************************************)
(* new URL(href, baseUrl).toString()                                       *)
(***************************************************************************)

\* BASE_URL, which fetchDirectory hands to parseDirectoryListing
BASE_URL == "https://www.rasmusen.org/special/jackson/"

\* the length of the scheme that starts s ([A-Za-z][A-Za-z0-9+.-]* before a
\* colon), 0 when s starts with none
SchemeLen(s) ==
  LET IsSchemeChar(c) == IsAlnum(c) \/ c \in {"+", ".", "-"}
      colons == Occurrences(s, ":")
      n == IF colons = {} THEN 0 ELSE Min(colons) - 1
  IN IF /\ n >= 1
        /\ IsLower(CharAt(s, 1)) \/ IsUpper(CharAt(s, 1))
        /\ \A k \in 2..n : IsSchemeChar(CharAt(s, k))
     THEN n ELSE 0

\* the schemes whose URLs need a host
SpecialSchemes == {"http", "https", "ftp", "ws", "wss"}

\* the characters a path keeps percent-encoded
PathEscapes ==
  (" " :> "%20") @@ ("\"" :> "%22") @@ ("<" :> "%3C") @@ (">" :> "%3E")
    @@ ("{" :> "%7B") @@ ("}" :> "%7D")

\* how many slashes s holds in a row from position i on
RECURSIVE SlashRun(_, _)
SlashRun(s, i) ==
  IF CharAt(s, i) \in {"/", "\\"} THEN 1 + SlashRun(s, i + 1) ELSE 0

\* the URL of "scheme:" followed by rest, for a scheme that needs a host: the
\* host is what follows the slashes, up to the path; an empty host, or one
\* with a character no host may hold, is a TypeError
HostUrl(scheme, rest) ==
  LET from == SlashRun(rest, 1) + 1
      ends == { i \in from..Len(rest) : CharAt(rest, i) \in {"/", "\\", "?", "#"} }
      stop == IF ends = {} THEN Len(rest) + 1 ELSE Min(ends)
      host == SubSeq(rest, from, stop - 1)
      path == SubstringFrom(rest, stop)
      Forbidden(c) == c \in {" ", "%", "<", ">", "[", "]", "^", "|", "@", ":"}
  IN IF host = "" \/ \E i \in 1..Len(host) : Forbidden(CharAt(host, i))
     THEN [threw |-> TRUE, val |-> ""]
     ELSE [threw |-> FALSE,
           val |-> scheme \o "://" \o ToLowerCase(host)
                     \o (IF path = "" THEN "/" ELSE MapChars(PathEscapes, path, 1))]

\* new URL(href, baseUrl).toString() for the hrefs of a listing: an absolute
\* URL, a scheme-relative one (//host/path), an absolute path, and a name
\* relative to the directory baseUrl (which ends with a slash and has no
\* query); hrefs with dot segments are navigation links and never get here
ResolveUrl(href, baseUrl) ==
  LET h == Trim(href)
      n == SchemeLen(h)
      scheme == ToLowerCase(SubSeq(h, 1, n))
      baseScheme == SubSeq(baseUrl, 1, SchemeLen(baseUrl))
      baseRest == SubstringFrom(baseUrl, SchemeLen(baseUrl) + 4)
      hostEnd == Min(Occurrences(baseRest, "/"))
      origin == baseScheme \o "://" \o SubSeq(baseRest, 1, hostEnd - 1)
  IN IF n > 0 /\ scheme \in SpecialSchemes
       THEN HostUrl(scheme, SubstringFrom(h, n + 2))
     ELSE IF n > 0 THEN [threw |-> FALSE, val |-> h]
     ELSE IF SlashRun(h, 1) >= 2 THEN HostUrl(baseScheme, h)
     ELSE IF StartsWith(h, "/")
       THEN [threw |-> FALSE, val |-> origin \o MapChars(PathEscapes, h, 1)]
     ELSE [threw |-> FALSE, val |-> baseUrl \o MapChars(PathEscapes, h, 1)]

(***************************************************************************)
(* extractFileMetadata                                                     *)
(***************************************************************************)

\* what stands for null
NoFile ==
  [id |-> "", filename |-> "", displayName |-> "", url |-> "", type |-> "",
   person |-> "", date |-> "", size |-> "", sizeBytes |-> 0, keywords |-> << >>]

\* the try block of extractFileMetadata: threw when new URL, btoa or
\* decodeURIComponent throws
ExtractBody(parentText, filename, href, baseUrl) ==
  LET metadata == parseListingLine(parentText, filename)
      fullUrl == ResolveUrl(href, baseUrl)
      fileType == determineFileType(filename, href)
      person == extractPersonFromFilename(filename)
      id == generateFileId(filename, href)
      displayName == cleanDisplayName(filename)
  IN IF fullUrl.threw \/ id.threw \/ displayName.threw
     THEN [threw |-> TRUE, val |-> NoFile]
     ELSE [threw |-> FALSE,
           val |-> [id |-> id.val,
                    filename |-> filename,
                    displayName |-> displayName.val,
                    url |-> fullUrl.val,
                    type |-> fileType,
                    person |-> person,
                    date |-> metadata.date,
                    size |-> metadata.size,
                    sizeBytes |-> metadata.sizeBytes,
                    keywords |-> generateKeywords(filename, fileType, person)]]

\* extractFileMetadata without its catch: what the try block throws escapes
extractFileMetadataNoCatch(parentText, filename, href, baseUrl) ==
  LET body == ExtractBody(parentText, filename, href, baseUrl)
  IN [threw |-> body.threw, isNull |-> FALSE, val |-> body.val]

\* extractFileMetadata: the record, or null (after console.warn) when the try
\* block threw; nothing escapes the catch
extractFileMetadata(parentText, filename, href, baseUrl) ==
  LET body == ExtractBody(parentText, filename, href, baseUrl)
  IN [threw |-> FALSE, isNull |-> body.threw, val |-> body.val]

(***************************************************************************)
(* The listing document                                                    *)
(***************************************************************************)

\* the most anchors a document holds
MaxRows == 2

\* An anchor of the document and the text that follows it up to the next
\* anchor: whether it lies inside the <pre> container, whether it has an href
\* attribute, its href, its visible text, and the date and size tokens of its
\* row ("" for a row without the token).
Row(text, href, date, size) ==
  [inPre |-> TRUE, hasHref |-> TRUE, href |-> href, text |-> text,
   date |-> date, size |-> size]

\* a row whose href is its name
FileRow(name, date, size) == Row(name, name, date, size)

\* the anchors a document is made of
RowPool ==
  { Row("Parent Directory", "/special/", "", "-"),
    Row("Up", "../", "", ""),
    Row("Name", "?C=N;O=D", "", ""),
    Row("Top", "#top", "", ""),
    Row("Parent Directory Notes.pdf", "Parent%20Directory%20Notes.pdf",
        "2021-05-12 14:30", "12K"),
    [inPre |-> TRUE, hasHref |-> FALSE, href |-> "", text |-> "listing",
     date |-> "", size |-> ""],
    [inPre |-> FALSE, hasHref |-> TRUE, href |-> "index.html", text |-> "Home",
     date |-> "", size |-> ""],
    Row("100%.pdf", "100%25.pdf", "2021-05-12 14:30", "1K"),
    Row("mirror", "http://", "", ""),
    FileRow("TJ003_deposition_part1.pdf", "2021-05-13 10:00", "12.7"),
    FileRow("TJ003_deposition_part2.pdf", "2021-06-01 09:15", "1.5M"),
    FileRow("report.PDF", "2020-01-31 08:00", ""),
    FileRow("clip.mp4", "", "1.5G"),
    FileRow("backup.zip/", "2021-05-12 14:30", "-"),
    FileRow("constructor", "", ""),
    FileRow("zip", "2019-12-31 23:59", "1024"),
    FileRow("Rachel_Gain_exhibit.pdf", "2022-02-02 12:00", "3M"),
    FileRow("tj003_notes.pdf", "2021-05-12 14:30", "250K"),
    FileRow("_draft.pdf", "2021-05-12 14:30", "250K") }

\* the documents: up to MaxRows anchors, in document order
Documents == UNION { [1..n -> RowPool] : n \in 0..MaxRows }

\* the text between an anchor and the next one, as mod_autoindex lays a row
\* out: the date and the size, each after padding, and the end of the line
RowTail(node) ==
  (IF node.date # "" THEN "  " \o node.date ELSE "")
    \o (IF node.size # "" THEN "  " \o node.size ELSE "") \o "\n"

RECURSIVE PreTextFrom(_, _)
\* textContent of the <pre> element from the i-th node of doc on: the text of
\* every anchor inside it and of what follows the anchor
PreTextFrom(doc, i) ==
  IF i > Len(doc) THEN ""
  ELSE (IF doc[i].inPre THEN doc[i].text \o RowTail(doc[i]) ELSE "")
         \o PreTextFrom(doc, i + 1)

\* link.parentElement.textContent for an anchor inside the <pre> element
ParentText(doc) == PreTextFrom(doc, 1)

\* doc.querySelectorAll('pre a[href]'): the positions, in document order, of
\* the anchors with an href inside the <pre> element
QuerySelectorAll(doc) ==
  LET hits == { i \in 1..Len(doc) : doc[i].inPre /\ doc[i].hasHref }
      Rank(i) == Cardinality({ j \in hits : j <= i })
  IN [k \in 1..Cardinality(hits) |-> CHOOSE i \in hits : Rank(i) = k]

(***************************************************************************)
(* parseDirectoryListing                                                   *)
(***************************************************************************)

VARIABLES
  html,       \* htmlContent, parsed: the anchors of the document
  pc,         \* where parseDirectoryListing is: start, loop, done, raised
  fileLinks,  \* the NodeList, as positions in html
  idx,        \* how many links forEach has visited
  files,      \* the files array
  warned,     \* the filenames console.warn has reported
  outcome     \* history: what became of each visited link (navigation,
              \* pushed, skipped)

\* The state of the App component (app.jsx) and of the hooks it renders
\* with: the controls, and what the last render computed from them.
VARIABLES
  searchTerm,      \* the search box
  personFilter,    \* the person select: all, a person, or Unknown
  typeFilter,      \* the type select: all or a type
  sortBy,          \* name, person, type, date or size
  sortOrder,       \* asc or desc
  displayFiles,    \* App: sortFiles(filterFiles(...)), or the exception
  searchResults,   \* useSearch(files) for the same search term
  processedFiles   \* useFilters(files) for the same filters and sort key

appVars == <<searchTerm, personFilter, typeFilter, sortBy, sortOrder,
             displayFiles, searchResults, processedFiles>>

\* The state of useDirectoryData beside files, and the fetchDirectory calls
\* made so far.
VARIABLES
  loading,    \* useState(true)
  error,      \* useState(null): null or the message shown to the user
  lastFetch,  \* useState(null): null or the time of the last load
  calls       \* the calls of fetchDirectory, in the order they were started

hookVars == <<loading, error, lastFetch, calls>>

\* the parser's own variables, apart from the files array
parserVars == <<html, pc, fileLinks, idx, warned, outcome>>

vars == <<html, pc, fileLinks, idx, files, warned, outcome, appVars, hookVars>>

\* the hook as useState leaves it, no effect having run
HookIdle ==
  /\ loading = TRUE
  /\ error = "null"
  /\ lastFetch = "null"
  /\ calls = << >>

\* no component is mounted while the parser alone is looked at
AppUnmounted ==
  /\ searchTerm = ""
  /\ personFilter = "all"
  /\ typeFilter = "all"
  /\ sortBy = "name"
  /\ sortOrder = "asc"
  /\ displayFiles = << >>
  /\ searchResults = << >>
  /\ processedFiles = << >>

Init ==
  /\ html \in Documents
  /\ pc = "start"
  /\ fileLinks = << >>
  /\ idx = 0
  /\ files = << >>
  /\ warned = << >>
  /\ outcome = << >>
  /\ AppUnmounted
  /\ HookIdle

\* the link forEach visits next, its href and its filename
Link == html[fileLinks[idx + 1]]

LinkHref == Link.href

LinkFilename == Trim(Link.text)

\* lines 12-17: parse the document and select the links
SelectLinks ==
  /\ pc = "start"
  /\ fileLinks' = QuerySelectorAll(html)
  /\ files' = << >>
  /\ pc' = "loop"
  /\ UNCHANGED <<html, idx, warned, outcome, appVars, hookVars>>

\* lines 20-26: a navigation link is passed over
SkipNavigationLink ==
  /\ pc = "loop"
  /\ idx < Len(fileLinks)
  /\ isNavigationLink(LinkHref, LinkFilename)
  /\ idx' = idx + 1
  /\ outcome' = Append(outcome, "navigation")
  /\ UNCHANGED <<html, pc, fileLinks, files, warned, appVars, hookVars>>

\* lines 20-34: any other link is handed to extractFileMetadata, and its
\* record is pushed unless it is null; an exception would end the call
ExtractLink ==
  /\ pc = "loop"
  /\ idx < Len(fileLinks)
  /\ ~isNavigationLink(LinkHref, LinkFilename)
  /\ \E parentText \in {ParentText(html)}, filename \in {LinkFilename},
        href \in {LinkHref} :
       \E fileData \in {extractFileMetadata(parentText, filename, href, BASE_URL)} :
         IF fileData.threw
         THEN /\ pc' = "raised"
              /\ UNCHANGED <<idx, files, warned, outcome>>
         ELSE /\ pc' = pc
              /\ idx' = idx + 1
              /\ files' = IF fileData.isNull THEN files
                          ELSE Append(files, fileData.val)
              /\ warned' = IF fileData.isNull THEN Append(warned, filename)
                           ELSE warned
              /\ outcome' = Append(outcome, IF fileData.isNull THEN "skipped"
                                            ELSE "pushed")
  /\ UNCHANGED <<html, fileLinks, appVars, hookVars>>

\* line 37: return files
Return ==
  /\ pc = "loop"
  /\ idx = Len(fileLinks)
  /\ pc' = "done"
  /\ UNCHANGED <<html, fileLinks, idx, files, warned, outcome, appVars, hookVars>>

Next == SelectLinks \/ SkipNavigationLink \/ ExtractLink \/ Return

Spec == Init /\ [][Next]_vars

(***************************************************************************)
(* Properties of parseDirectoryListing                                     *)
(***************************************************************************)

\* the anchor forEach visited i-th
Visited(i) == html[fileLinks[i]]

\* the visits, in order, that pushed a record: files[k] is the record of the
\* anchor Visited(PushedVisits[k])
PushedVisits ==
  SelectSeq([i \in 1..Len(outcome) |-> i], LAMBDA i : outcome[i] = "pushed")

\* the anchor files[k] was extracted from
RowOf(k) == Visited(PushedVisits[k])

\* the filenames of a sequence of records
Filenames(records) == [k \in 1..Len(records) |-> records[k].filename]

\* the exclusion rule as the specification words it: the visible text is
\* compared for equality with "Parent Directory"
NavigationAsSpecified(href, filename) ==
  \/ Includes(href, "..")
  \/ filename = "Parent Directory"
  \/ Includes(href, "?C=")
  \/ StartsWith(href, "?")
  \/ StartsWith(href, "#")

\* C1: an anchor is excluded if and only if its href contains "..", its
\* visible text equals "Parent Directory", its href contains "?C=", or its
\* href begins with "?" or "#"; every other anchor with an href inside the
\* <pre> container is a candidate, and no other anchor is looked at.
C1_ExcludedIffSpecified ==
  /\ \A i \in 1..Len(outcome) :
       (outcome[i] = "navigation")
         <=> NavigationAsSpecified(Visited(i).href, Trim(Visited(i).text))
  /\ pc = "done" =>
       Len(outcome)
         = Cardinality({ n \in 1..Len(html) : html[n].inPre /\ html[n].hasHref })

\* every href the call visits resolves against the base URL
HrefsResolve ==
  \A i \in 1..Len(fileLinks) : ~ResolveUrl(Visited(i).href, BASE_URL).threw

\* the anchors of the container that are not navigation links
NonNavigationAnchors ==
  { i \in 1..Len(fileLinks) :
      ~isNavigationLink(Visited(i).href, Trim(Visited(i).text)) }

\* C2: the number of records returned equals the number of anchors inside
\* the listing container that are not navigation links; stated here for the
\* listings whose every href is a well-formed reference, where no entry has a
\* reason to be missing.
C2_CountEqualsNonNavigation ==
  (pc = "done" /\ HrefsResolve)
    => Len(files) = Cardinality(NonNavigationAnchors)

\* the entries of the pool whose extraction cannot succeed: the href
\* "http://" has no host to resolve to, and the name "100%.pdf" is not a
\* well-formed percent-encoding
Unextractable == { "mirror", "100%.pdf" }

\* the filenames of the first n visited anchors that are neither navigation
\* links nor unextractable, in document order
ExtractableNames(n) ==
  LET names == [i \in 1..n |-> Trim(Visited(i).text)]
      keep == SelectSeq([i \in 1..n |-> i],
                LAMBDA i : /\ ~isNavigationLink(Visited(i).href, names[i])
                           /\ names[i] \notin Unextractable)
  IN [k \in 1..Len(keep) |-> names[keep[k]]]

\* C3: parseDirectoryListing never raises; an entry whose extraction fails is
\* skipped (and reported) on its own, and the result is exactly the entries
\* that can be extracted, in document order, empty when there are none.
C3_NeverRaisesSkipsAlone ==
  /\ pc # "raised"
  /\ pc # "start" =>
       /\ Filenames(files) = ExtractableNames(idx)
       /\ Len(warned) = Cardinality({ i \in 1..idx : outcome[i] = "skipped" })
       /\ \A i \in 1..idx :
            outcome[i] = "skipped" => Trim(Visited(i).text) \in Unextractable
  /\ pc = "done" => idx = Len(fileLinks)

\* a finished call that skipped a failing entry and pushed the entry after it
C3_SkippedThenPushed ==
  /\ pc = "done"
  /\ \E i \in 1..Len(outcome) :
       /\ i < Len(outcome)
       /\ outcome[i] = "skipped"
       /\ outcome[i + 1] = "pushed"

\* C4: within one parse result, entries with pairwise distinct
\* (filename, href) pairs have pairwise distinct ids.
C4_IdsDistinct ==
  \A j, k \in 1..Len(files) :
    (j # k /\ <<files[j].filename, RowOf(j).href>>
                # <<files[k].filename, RowOf(k).href>>)
      => files[j].id # files[k].id

\* the closed set of types
FileTypes == { "document", "video", "archive", "webpage", "folder" }

\* C5: every record has a type that is one of document, video, archive,
\* webpage, folder.
C5_TypeInClosedSet ==
  \A k \in 1..Len(files) : files[k].type \in FileTypes

\* the type as the specification words it: folder for an href ending in "/";
\* otherwise the table entry of the lower-cased extension, the text after the
\* last "." of a name that has one; document for any other name
TypeAsSpecified(filename, href) ==
  LET parts == Split(filename, ".")
      ext == ToLowerCase(parts[Len(parts)])
  IN IF EndsWith(href, "/") THEN "folder"
     ELSE IF Len(parts) > 1 /\ ext \in DOMAIN typeMap THEN typeMap[ext]
     ELSE "document"

\* C6: the type is folder whenever the href ends with "/"; otherwise the
\* table entry for the lower-cased extension, and document for every name
\* whose extension is not in the table, a name with no extension included.
C6_TypeAsSpecified ==
  \A k \in 1..Len(files) :
    files[k].type = TypeAsSpecified(files[k].filename, RowOf(k).href)

\* the size token that trails the text handed to parseListingLine: the token
\* of the last row of the container ("" when that row has none)
TrailingSizeToken ==
  LET rows == SelectSeq(html, LAMBDA node : node.inPre)
  IN IF rows = << >> THEN "" ELSE rows[Len(rows)].size

\* the byte counts of the numeric tokens of the pool, worked out by hand:
\* the numeric part times 1024, 1024^2 or 1024^3, rounded down
BytesOfToken ==
  [tok \in { "1K", "12K", "250K", "12.7", "1024", "1.5M", "3M", "1.5G" } |->
     CASE tok = "1K" -> 1024
       [] tok = "12K" -> 12288
       [] tok = "250K" -> 256000
       [] tok = "12.7" -> 12
       [] tok = "1024" -> 1024
       [] tok = "1.5M" -> 1572864
       [] tok = "3M" -> 3145728
       [] tok = "1.5G" -> 1610612736]

TokenOrUnknown(token) == IF token = "" THEN "Unknown" ELSE token

\* C8: each record's date and size are the tokens of the entry's own row,
\* Unknown for a row without the token, whatever the other rows hold; stated
\* here for the listings whose every anchor became a record.
C8_OwnRowTokens ==
  (pc = "done" /\ Len(files) = Len(html)) =>
    \A k \in 1..Len(files) :
      /\ files[k].date = TokenOrUnknown(RowOf(k).date)
      /\ files[k].size = (IF RowOf(k).size = "-" THEN "Directory"
                          ELSE TokenOrUnknown(RowOf(k).size))

\* the roster patterns that match a name when every one of them is tested
\* without regard to case
RosterHits(name) ==
  { i \in 1..Len(patterns) :
      \/ PatternTest(patterns[i], name)
      \/ PatternTest(patterns[i], ToUpperCase(name)) }

\* C9: the roster patterns are tested case-insensitively against the
\* extension-stripped filename in priority order and the first match gives
\* the person; the fallback or Unknown results only when no pattern matches,
\* and Unknown when there is no underscore either.
C9_FirstRosterMatchWins ==
  \A k \in 1..Len(files) :
    LET name == StripExtension(files[k].filename)
    IN /\ RosterHits(name) # {} =>
            files[k].person = patterns[Min(RosterHits(name))].name
       /\ (RosterHits(name) = {} /\ ~Includes(name, "_")) =>
            files[k].person = "Unknown"

\* a formatted multi-word name: two or more words separated by single
\* spaces, none of them empty, each starting with something other than a
\* lower-case letter
FormattedName(person) ==
  LET words == Split(person, " ")
  IN /\ Len(words) >= 2
     /\ \A w \in 1..Len(words) :
          words[w] # "" /\ ~IsLower(CharAt(words[w], 1))

\* C10: every record's person is Unknown or a formatted multi-word name.
C10_PersonUnknownOrFormatted ==
  \A k \in 1..Len(files) :
    files[k].person = "Unknown" \/ FormattedName(files[k].person)

\* the maximal runs of lower-case letters and digits of s
WordRuns(s) ==
  LET InWord(i) == IsLower(CharAt(s, i)) \/ IsDigit(CharAt(s, i))
  IN { SubSeq(s, i, j) : <<i, j>> \in
         { r \in (1..Len(s)) \X (1..Len(s)) :
             /\ r[1] <= r[2]
             /\ \A n \in r[1]..r[2] : InWord(n)
             /\ (r[1] = 1 \/ ~InWord(r[1] - 1))
             /\ (r[2] = Len(s) \/ ~InWord(r[2] + 1)) } }

\* the maximal runs of s without white space
Segments(s) ==
  LET InSegment(i) == ~IsSpace(CharAt(s, i))
  IN { SubSeq(s, i, j) : <<i, j>> \in
         { r \in (1..Len(s)) \X (1..Len(s)) :
             /\ r[1] <= r[2]
             /\ \A n \in r[1]..r[2] : InSegment(n)
             /\ (r[1] = 1 \/ ~InSegment(r[1] - 1))
             /\ (r[2] = Len(s) \/ ~InSegment(r[2] + 1)) } }

\* the tokens the words deposition, motion and exhibit of a name bring in
DomainExpansions(low) ==
  (IF Includes(low, "deposition") THEN {"testimony", "legal", "court"} ELSE {})
    \cup (IF Includes(low, "motion") THEN {"legal", "court", "filing"} ELSE {})
    \cup (IF Includes(low, "exhibit") THEN {"evidence", "legal", "court"} ELSE {})

\* the keywords a record is to have
KeywordsAsSpecified(file) ==
  LET low == ToLowerCase(file.filename)
  IN { w \in WordRuns(low) : Len(w) > 2 }
       \cup {file.type}
       \cup (IF file.person # "Unknown"
             THEN Segments(ToLowerCase(file.person)) ELSE {})
       \cup DomainExpansions(low)

\* C11: the keywords of a record are a duplicate-free collection of
\* lower-case tokens holding exactly the filename tokens longer than 2
\* characters, the type token, the lower-cased name segments of a person
\* other than Unknown, and the expansions of deposition, motion and exhibit.
C11_KeywordsAsSpecified ==
  \A k \in 1..Len(files) :
    LET kw == files[k].keywords
    IN /\ \A i, j \in 1..Len(kw) : i # j => kw[i] # kw[j]
       /\ \A i \in 1..Len(kw) : kw[i] # "" /\ kw[i] = ToLowerCase(kw[i])
       /\ { kw[i] : i \in 1..Len(kw) } = KeywordsAsSpecified(files[k])

(***************************************************************************)
(* The record sets the components work on                                  *)
(***************************************************************************)

\* parseDirectoryListing(htmlContent, baseUrl) as a value: what the loop
\* above returns for a document, the records of the links that are not
\* navigation links and whose extraction did not yield null, in order
parseDirectoryListing(doc, baseUrl) ==
  LET links == QuerySelectorAll(doc)
      Extracted(parentText, node) ==
        IF isNavigationLink(node.href, Trim(node.text)) THEN << >>
        ELSE CHOOSE pushed \in
               { IF fileData.isNull THEN << >> ELSE <<fileData.val>> :
                   fileData \in
                     { extractFileMetadata(parentText, filename, href, baseUrl) :
                         filename \in {Trim(node.text)}, href \in {node.href} } } :
               TRUE
      RECURSIVE From(_, _)
      From(parentText, k) ==
        IF k > Len(links) THEN << >>
        ELSE Extracted(parentText, doc[links[k]]) \o From(parentText, k + 1)
  IN CHOOSE result \in
       { From(parentText, 1) : parentText \in {ParentText(doc)} } : TRUE

\* The listings a session may have fetched.  Within one <pre> every record
\* gets the size of the last row, and a row without a date gets the date of
\* the next row that has one, so a row without a date is put last.
Listings ==
  { << >>,
    << FileRow("TJ003_deposition_part1.pdf", "2021-05-13 10:00", "12.7"),
       FileRow("Rachel_Gain_exhibit.pdf", "2022-02-02 12:00", "3M"),
       FileRow("backup.zip/", "2021-05-12 14:30", "-") >>,
    << FileRow("Motion_to_Dismiss.pdf", "2021-06-01 09:15", "1.5M"),
       FileRow("old_minutes.txt", "1969-07-20 20:17", "1K"),
       FileRow("tj003_notes.pdf", "2021-06-01 09:15", "250K"),
       FileRow("clip.mp4", "", "") >>,
    << FileRow("report.PDF", "2020-01-31 08:00", "12K"),
       FileRow("Jackson_Ewell_email.txt", "2020-01-31 08:00", "12K"),
       FileRow("archive/", "2019-12-31 23:59", "-"),
       FileRow("Report.pdf", "", "") >>,
    << FileRow("constructor", "2021-05-12 14:30", "1K"),
       FileRow("Rachel_Gain_exhibit.pdf", "2022-02-02 12:00", "3M") >> }

\* the record sequences the files state can hold after a successful fetch
FileSets == { parseDirectoryListing(doc, BASE_URL) : doc \in Listings }

(***************************************************************************)
(* Values and comparisons of the hooks                                     *)
(***************************************************************************)

\* the values that are not strings: what typeMap[extension] inherits.  They
\* have no toLowerCase and no includes method, so calling one is a TypeError.
NotAString(v) == v \in { InheritedValue(key) : key \in ObjectPrototypeKeys }

\* String(v) of such a value, which the default sort compares by
StringOf(v) ==
  IF v = InheritedValue("constructor") THEN "function Object() { [native code] }"
  ELSE IF NotAString(v) THEN "[object Object]"
  ELSE v

RECURSIVE StringLessFrom(_, _, _)
\* a < b for strings, from position i on: by UTF-16 code unit at the first
\* position where they differ, a proper prefix being less
StringLessFrom(a, b, i) ==
  IF i > Len(b) THEN FALSE
  ELSE IF i > Len(a) THEN TRUE
  ELSE IF CharAt(a, i) = CharAt(b, i) THEN StringLessFrom(a, b, i + 1)
  ELSE CharCode[CharAt(a, i)] < CharCode[CharAt(b, i)]

\* a < b for strings
StringLess(a, b) == StringLessFrom(a, b, 1)

\* days from 1970-01-01 to the civil date y-m-d
DaysFromCivil(y, m, d) ==
  LET yy == IF m <= 2 THEN y - 1 ELSE y
      era == yy \div 400
      yoe == yy - era * 400
      mp == (m + 9) % 12
      doy == (153 * mp + 2) \div 5 + d - 1
      doe == yoe * 365 + yoe \div 4 - yoe \div 100 + doy
  IN era * 146097 + doe - 719468

\* new Date(value).getTime() in minutes, for 0 and for a date string
\* "YYYY-MM-DD HH:MM", which is read as a local time (taken here in UTC)
DateValue(value) ==
  IF value = "0" THEN 0
  ELSE LET Num(from, to) == DigitsValue(SubSeq(value, from, to), 0)
           n == Len(value)
       IN DaysFromCivil(Num(1, 4), Num(6, 7), Num(9, 10)) * 1440
            + Num(n - 4, n - 3) * 60 + Num(n - 1, n)

\* the ASCII characters in the order of the root collation that
\* localeCompare follows: space, punctuation, symbols, digits, letters, a
\* letter having the rank of its lower-case form
CollationOrder ==
  " _-,;:!?.'\"()[]{}@*/\\&#%^+<=>|~$0123456789abcdefghijklmnopqrstuvwxyz"

CollationRank(c) == PosIn(CollationOrder, ToLowerCase(c))

RECURSIVE CaseCompareFrom(_, _, _)
\* the tie-break of two strings that differ in case only: lower case first
CaseCompareFrom(a, b, i) ==
  IF i > Len(a) THEN 0
  ELSE IF CharAt(a, i) = CharAt(b, i) THEN CaseCompareFrom(a, b, i + 1)
  ELSE IF IsLower(CharAt(a, i)) THEN -1 ELSE 1

RECURSIVE LocaleCompareFrom(_, _, _)
\* a.localeCompare(b) from position i on: by rank first, then by case
LocaleCompareFrom(a, b, i) ==
  IF i > Len(a) /\ i > Len(b) THEN CaseCompareFrom(a, b, 1)
  ELSE IF i > Len(a) THEN -1
  ELSE IF i > Len(b) THEN 1
  ELSE IF CollationRank(CharAt(a, i)) = CollationRank(CharAt(b, i))
       THEN LocaleCompareFrom(a, b, i + 1)
  ELSE IF CollationRank(CharAt(a, i)) < CollationRank(CharAt(b, i)) THEN -1
  ELSE 1

\* a.localeCompare(b)
LocaleCompare(a, b) == LocaleCompareFrom(a, b, 1)

\* the comparator of sortFiles (useDirectoryData.js:185-215): aVal and bVal
\* are timestamps or byte counts for date and size, lower-cased strings for
\* the other keys
sortFilesCompare(a, b, by, order) ==
  LET numeric == by \in {"date", "size"}
      Num(file) == IF by = "date"
                   THEN DateValue(IF file.date = "Unknown" THEN "0" ELSE file.date)
                   ELSE file.sizeBytes
      Str(file) == ToLowerCase(CASE by = "person" -> file.person
                                 [] by = "type" -> file.type
                                 [] OTHER -> file.displayName)
      less == IF numeric THEN Num(a) < Num(b) ELSE StringLess(Str(a), Str(b))
      greater == IF numeric THEN Num(a) > Num(b) ELSE StringLess(Str(b), Str(a))
  IN IF less THEN (IF order = "asc" THEN -1 ELSE 1)
     ELSE IF greater THEN (IF order = "asc" THEN 1 ELSE -1)
     ELSE 0

\* the comparator of useFilters (useFilters.js:43-65)
useFiltersCompare(a, b, by) ==
  CASE by = "name" -> LocaleCompare(a.displayName, b.displayName)
    [] by = "date" ->
         IF a.date = "Unknown" /\ b.date = "Unknown" THEN 0
         ELSE IF a.date = "Unknown" THEN 1
         ELSE IF b.date = "Unknown" THEN -1
         ELSE DateValue(b.date) - DateValue(a.date)
    [] by = "size" -> b.sizeBytes - a.sizeBytes
    [] by = "person" -> LocaleCompare(a.person, b.person)
    [] OTHER -> 0

\* a comparator as a value: the hook it belongs to, the key and the order
Compare(a, b, cmp) ==
  IF cmp.hook = "sortFiles" THEN sortFilesCompare(a, b, cmp.by, cmp.order)
  ELSE useFiltersCompare(a, b, cmp.by)

RECURSIVE InsertSorted(_, _, _, _)
\* x put into the sorted array after its j-th element, or further left as
\* long as the element there compares greater than x
InsertSorted(sorted, x, j, cmp) ==
  IF j = 0 \/ Compare(sorted[j], x, cmp) <= 0
  THEN SubSeq(sorted, 1, j) \o <<x>> \o SubSeq(sorted, j + 1, Len(sorted))
  ELSE InsertSorted(sorted, x, j - 1, cmp)

RECURSIVE ArraySortPrefix(_, _, _)
\* the first n elements of array, sorted: the n-th is inserted into the
\* sorted first n - 1
ArraySortPrefix(array, n, cmp) ==
  IF n = 0 THEN << >>
  ELSE CHOOSE result \in
         { InsertSorted(sorted, array[n], n - 1, cmp) :
             sorted \in {ArraySortPrefix(array, n - 1, cmp)} } : TRUE

\* Array.prototype.sort(compareFn), which is stable
ArraySort(array, cmp) == ArraySortPrefix(array, Len(array), cmp)

(***************************************************************************)
(* useDirectoryData: filterFiles, getFilterOptions, sortFiles              *)
(***************************************************************************)

RECURSIVE SomeKeyword(_, _, _, _)
\* keywords.some(keyword => <keyword, lower-cased when the hook does so>
\* .includes(term)) from the i-th keyword on: match, miss, or TypeError when
\* a keyword that is not a string is reached before a match
SomeKeyword(keywords, term, i, lowered) ==
  IF i > Len(keywords) THEN "miss"
  ELSE IF NotAString(keywords[i]) THEN "TypeError"
  ELSE IF \E keyword \in {IF lowered THEN ToLowerCase(keywords[i]) ELSE keywords[i]} :
            Includes(keyword, term)
       THEN "match"
  ELSE SomeKeyword(keywords, term, i + 1, lowered)

\* the part of searchMatch before the keywords (lines 153-155), for a term
\* that is already lower-cased
filterFilesFieldMatch(file, low) ==
  \E field \in { ToLowerCase(file.filename), ToLowerCase(file.displayName),
                 ToLowerCase(file.person) } : Includes(field, low)

\* searchMatch of filterFiles for one file (lines 152-156)
filterFilesSearchMatch(file, term) ==
  IF term = "" THEN "match"
  ELSE CHOOSE verdict \in
         { IF filterFilesFieldMatch(file, low) THEN "match"
           ELSE SomeKeyword(file.keywords, low, 1, TRUE) :
             low \in {ToLowerCase(term)} } : TRUE

\* filterFiles with the person and the type test joined by || in line 164
filterFilesEitherAxis(stored, term, person, type) ==
  CHOOSE result \in
    { [threw |-> \E k \in 1..Len(stored) : verdict[k] = "TypeError",
       val |-> SelectSeq(stored,
                 LAMBDA file :
                   \E k \in 1..Len(stored) :
                     /\ stored[k] = file
                     /\ verdict[k] = "match"
                     /\ \/ (person = "all" \/ file.person = person)
                        \/ (type = "all" \/ file.type = type))] :
        verdict \in {[k \in 1..Len(stored) |-> filterFilesSearchMatch(stored[k], term)]} } :
    TRUE

\* filterFiles(searchTerm, personFilter, typeFilter) over the stored files:
\* the exception of the callback escapes files.filter
filterFiles(stored, term, person, type) ==
  CHOOSE result \in
    { [threw |-> \E k \in 1..Len(stored) : verdict[k] = "TypeError",
       val |-> SelectSeq(stored,
                 LAMBDA file :
                   \E k \in 1..Len(stored) :
                     /\ stored[k] = file
                     /\ verdict[k] = "match"
                     /\ (person = "all" \/ file.person = person)
                     /\ (type = "all" \/ file.type = type))] :
        verdict \in {[k \in 1..Len(stored) |-> filterFilesSearchMatch(stored[k], term)]} } :
    TRUE

\* the comparator of the default sort: by the string form, code unit order
DefaultCompare(a, b) ==
  IF StringLess(StringOf(a), StringOf(b)) THEN -1
  ELSE IF StringLess(StringOf(b), StringOf(a)) THEN 1
  ELSE 0

RECURSIVE InsertDefault(_, _, _)
InsertDefault(sorted, x, j) ==
  IF j = 0 \/ DefaultCompare(sorted[j], x) <= 0
  THEN SubSeq(sorted, 1, j) \o <<x>> \o SubSeq(sorted, j + 1, Len(sorted))
  ELSE InsertDefault(sorted, x, j - 1)

RECURSIVE DefaultSortPrefix(_, _)
DefaultSortPrefix(array, n) ==
  IF n = 0 THEN << >>
  ELSE CHOOSE result \in
         { InsertDefault(sorted, array[n], n - 1) :
             sorted \in {DefaultSortPrefix(array, n - 1)} } : TRUE

\* array.sort() without a comparator
DefaultSort(array) == DefaultSortPrefix(array, Len(array))

\* array.filter(p => p !== 'Unknown')
WithoutUnknown(array) == SelectSeq(array, LAMBDA p : p # "Unknown")

\* getFilterOptions without the filter of line 173
getFilterOptionsKeepUnknown(stored) ==
  [persons |-> DefaultSort(Dedupe([k \in 1..Len(stored) |-> stored[k].person])),
   types |-> DefaultSort(Dedupe([k \in 1..Len(stored) |-> stored[k].type]))]

\* getFilterOptions() over the stored files (lines 171-179)
getFilterOptions(stored) ==
  [persons |->
     DefaultSort(WithoutUnknown(Dedupe([k \in 1..Len(stored) |-> stored[k].person]))),
   types |-> DefaultSort(Dedupe([k \in 1..Len(stored) |-> stored[k].type]))]

\* sortFiles(filesToSort, sortBy, sortOrder): the copy is sorted; the
\* comparator is called as soon as there are two elements, and reading
\* type.toLowerCase() of a type that is not a string is a TypeError.
sortFiles(filesToSort, by, order) ==
  [threw |-> /\ by = "type"
             /\ Len(filesToSort) >= 2
             /\ \E k \in 1..Len(filesToSort) : NotAString(filesToSort[k].type),
   val |-> ArraySort(filesToSort, [hook |-> "sortFiles", by |-> by, order |-> order])]

(***************************************************************************)
(* useSearch and useFilters                                                *)
(***************************************************************************)

\* the callback of files.filter in useSearch (lines 27-54) for one file
useSearchMatch(file, term) ==
  IF \E field \in { ToLowerCase(file.displayName), ToLowerCase(file.filename),
                    ToLowerCase(file.person) } : Includes(field, term)
  THEN "match"
  ELSE CHOOSE verdict \in
         { IF inKeywords # "miss" THEN inKeywords
           ELSE IF NotAString(file.type) THEN "TypeError"
           ELSE IF \E type \in {ToLowerCase(file.type)} : Includes(type, term)
                THEN "match"
           ELSE "miss" :
             inKeywords \in {SomeKeyword(file.keywords, term, 1, FALSE)} } : TRUE

\* searchResults of useSearch(files) for a search term (lines 15-61)
useSearch(stored, term) ==
  IF Trim(term) = ""
  THEN [threw |-> FALSE, filteredFiles |-> stored, matchCount |-> Len(stored),
        hasActiveSearch |-> FALSE]
  ELSE CHOOSE result \in
         { [threw |-> \E k \in 1..Len(stored) : verdict[k] = "TypeError",
            filteredFiles |-> matches, matchCount |-> Len(matches),
            hasActiveSearch |-> TRUE] :
             <<verdict, matches>> \in
               { <<v, SelectSeq(stored,
                        LAMBDA file : \E k \in 1..Len(stored) :
                                        stored[k] = file /\ v[k] = "match")>> :
                   v \in { [k \in 1..Len(stored) |->
                              useSearchMatch(stored[k], trimmed)] :
                           trimmed \in {Trim(ToLowerCase(term))} } } } : TRUE

\* availablePersons and availableTypes of useFilters(files) (lines 17-26)
availablePersons(stored) ==
  DefaultSort(WithoutUnknown(Dedupe([k \in 1..Len(stored) |-> stored[k].person])))

availableTypes(stored) ==
  DefaultSort(Dedupe([k \in 1..Len(stored) |-> stored[k].type]))

\* useFilters without the copy of line 30: with both filters at all, the
\* array that is sorted in place is files itself
useFiltersInPlace(stored, by, person, type) ==
  LET byPerson == IF person # "all"
                  THEN SelectSeq(stored, LAMBDA file : file.person = person)
                  ELSE stored
      byType == IF type # "all"
                THEN SelectSeq(byPerson, LAMBDA file : file.type = type)
                ELSE byPerson
      sorted == ArraySort(byType, [hook |-> "useFilters", by |-> by])
  IN [filteredFiles |-> sorted,
      files |-> IF person = "all" /\ type = "all" THEN sorted ELSE stored]

\* processedFiles of useFilters(files) (lines 29-68): a copy of files is
\* filtered and then sorted in place.  files is what the files array holds
\* after the computation.
useFilters(stored, by, person, type) ==
  LET copy == stored
      byPerson == IF person # "all"
                  THEN SelectSeq(copy, LAMBDA file : file.person = person)
                  ELSE copy
      byType == IF type # "all"
                THEN SelectSeq(byPerson, LAMBDA file : file.type = type)
                ELSE byPerson
  IN [filteredFiles |-> ArraySort(byType, [hook |-> "useFilters", by |-> by]),
      files |-> stored]

(***************************************************************************)
(* The App component: controls, and a render after every change            *)
(***************************************************************************)

\* what a user types into the search box
SearchTerms == { "", " ", "Jackson", "doc", "exhibit " }

\* files.some(f => f.person === 'Unknown') (app.jsx:136, 142): whether the
\* person select has the separate Unknown option
UnknownOption(stored) == \E k \in 1..Len(stored) : stored[k].person = "Unknown"

\* the total shown in the All People option (app.jsx:136)
AllPeopleTotal(stored) ==
  Len(getFilterOptions(stored).persons) + (IF UnknownOption(stored) THEN 1 ELSE 0)

\* the values of the person select (app.jsx:136-146) for the stored files
PersonOptions(stored) ==
  LET options == getFilterOptions(stored).persons
  IN {"all"} \cup { options[i] : i \in 1..Len(options) }
             \cup (IF UnknownOption(stored) THEN {"Unknown"} ELSE {})

\* the values of the type select (app.jsx:160-166) for the stored files
TypeOptions(stored) ==
  LET options == getFilterOptions(stored).types
  IN {"all"} \cup { StringOf(options[i]) : i \in 1..Len(options) }

SortKeys == { "name", "person", "type", "date", "size" }

SortOrders == { "asc", "desc" }

\* the label of a type option, type.charAt(0).toUpperCase() + type.slice(1)
\* (app.jsx:164), is a TypeError for a type that is not a string; the
\* controls are drawn whenever loading is false
OptionLabelThrows(stored) == \E k \in 1..Len(stored) : NotAString(stored[k].type)

\* A render with the given controls: App recomputes displayFiles (app.jsx
\* 29-32) and draws the controls.  useSearch and useFilters, which no
\* component mounts, are driven by the same controls and recompute their
\* searchResults and processedFiles.  An exception of filterFiles, of
\* sortFiles or of an option label escapes the render.
Render(term, person, type, by, order) ==
  \E filtered \in {filterFiles(files, term, person, type)} :
    \E sorted \in {IF filtered.threw \/ OptionLabelThrows(files)
                   THEN [threw |-> TRUE, val |-> << >>]
                   ELSE sortFiles(filtered.val, by, order)} :
      \E found \in {useSearch(files, term)} :
        \E processed \in {useFilters(files, by, person, type)} :
          /\ displayFiles' = [threw |-> sorted.threw,
                              val |-> IF sorted.threw THEN << >> ELSE sorted.val]
          /\ searchResults' = found
          /\ processedFiles' = processed.filteredFiles
          /\ files' = processed.files

\* the App is mounted on a fetched record set with its initial controls
AppInit ==
  /\ html = << >>
  /\ pc = "idle"
  /\ fileLinks = << >>
  /\ idx = 0
  /\ warned = << >>
  /\ outcome = << >>
  /\ files \in FileSets
  /\ searchTerm = ""
  /\ personFilter = "all"
  /\ typeFilter = "all"
  /\ sortBy = "name"
  /\ sortOrder = "asc"
  /\ displayFiles = [threw |-> OptionLabelThrows(files),
                     val |-> IF OptionLabelThrows(files) THEN << >>
                             ELSE sortFiles(filterFiles(files, "", "all", "all").val,
                                            "name", "asc").val]
  /\ searchResults = useSearch(files, "")
  /\ processedFiles = useFilters(files, "name", "all", "all").filteredFiles
  /\ loading = FALSE
  /\ error = "null"
  /\ lastFetch = IF files = << >> THEN "null" ELSE "1"
  /\ calls = << >>

\* a render that threw has unmounted the App: no control is left
Mounted == ~displayFiles.threw

SetSearchTerm ==
  /\ Mounted
  /\ \E term \in SearchTerms :
       /\ searchTerm' = term
       /\ Render(term, personFilter, typeFilter, sortBy, sortOrder)
  /\ UNCHANGED <<personFilter, typeFilter, sortBy, sortOrder, parserVars, hookVars>>

SetPersonFilter ==
  /\ Mounted
  /\ \E person \in PersonOptions(files) :
       /\ personFilter' = person
       /\ Render(searchTerm, person, typeFilter, sortBy, sortOrder)
  /\ UNCHANGED <<searchTerm, typeFilter, sortBy, sortOrder, parserVars, hookVars>>

SetTypeFilter ==
  /\ Mounted
  /\ \E type \in TypeOptions(files) :
       /\ typeFilter' = type
       /\ Render(searchTerm, personFilter, type, sortBy, sortOrder)
  /\ UNCHANGED <<searchTerm, personFilter, sortBy, sortOrder, parserVars, hookVars>>

SetSortBy ==
  /\ Mounted
  /\ \E by \in SortKeys :
       /\ sortBy' = by
       /\ Render(searchTerm, personFilter, typeFilter, by, sortOrder)
  /\ UNCHANGED <<searchTerm, personFilter, typeFilter, sortOrder, parserVars, hookVars>>

SetSortOrder ==
  /\ Mounted
  /\ \E order \in SortOrders :
       /\ sortOrder' = order
       /\ Render(searchTerm, personFilter, typeFilter, sortBy, order)
  /\ UNCHANGED <<searchTerm, personFilter, typeFilter, sortBy, parserVars, hookVars>>

\* resetFilters (app.jsx:35-41): the five setters are batched in one render
ResetFilters ==
  /\ Mounted
  /\ searchTerm' = ""
  /\ personFilter' = "all"
  /\ typeFilter' = "all"
  /\ sortBy' = "name"
  /\ sortOrder' = "asc"
  /\ Render("", "all", "all", "name", "asc")
  /\ UNCHANGED <<parserVars, hookVars>>

AppNext ==
  \/ SetSearchTerm
  \/ SetPersonFilter
  \/ SetTypeFilter
  \/ SetSortBy
  \/ SetSortOrder
  \/ ResetFilters

AppSpec == AppInit /\ [][AppNext]_vars

(***************************************************************************)
(* Properties of search, filters, sort and options                         *)
(***************************************************************************)

\* every stored record has one of the five types, so that no keyword and no
\* type is anything but a string
WellTyped == \A k \in 1..Len(files) : files[k].type \in FileTypes

\* what filterFiles returns for the controls of the state, the categorical
\* filters set aside
SearchedByFilterFiles == filterFiles(files, searchTerm, "all", "all")

\* C12: with an empty or whitespace-only term and both filters at all,
\* filterFiles and useSearch return every stored record, in stored order.
C12_BlankTermReturnsAll ==
  (Trim(searchTerm) = "" /\ WellTyped) =>
    /\ ~SearchedByFilterFiles.threw
    /\ SearchedByFilterFiles.val = files
    /\ searchResults.filteredFiles = files

\* a record matches a term as the specification words it: the lower-cased
\* term is a substring of the lower-cased displayName, filename or person,
\* of a keyword, or of the type
MatchesAsSpecified(file, term) ==
  \E low \in {ToLowerCase(term)} :
    \E field \in { ToLowerCase(file.displayName), ToLowerCase(file.filename),
                   ToLowerCase(file.person), ToLowerCase(file.type) }
                 \cup { ToLowerCase(file.keywords[i]) : i \in 1..Len(file.keywords) } :
      Includes(field, low)

\* the stored records that match the search term, in stored order
MatchingFiles == SelectSeq(files, LAMBDA file : MatchesAsSpecified(file, searchTerm))

\* C13: with a non-empty term, filterFiles and useSearch return exactly the
\* stored records that match it, in stored order.
C13_SearchReturnsMatches ==
  (Trim(searchTerm) # "" /\ WellTyped) =>
    /\ ~SearchedByFilterFiles.threw
    /\ SearchedByFilterFiles.val = MatchingFiles
    /\ ~searchResults.threw
    /\ searchResults.filteredFiles = MatchingFiles

\* a record passes the categorical filters of the state: all constrains
\* nothing, any other value must equal the field
KeptByFilters(file) ==
  /\ (personFilter = "all" \/ file.person = personFilter)
  /\ (typeFilter = "all" \/ file.type = typeFilter)

\* two sequences hold the same records, each as often
SameRecords(s, t) ==
  /\ Len(s) = Len(t)
  /\ \A x \in { s[i] : i \in 1..Len(s) } \cup { t[i] : i \in 1..Len(t) } :
       Cardinality({ i \in 1..Len(s) : s[i] = x }) =
       Cardinality({ i \in 1..Len(t) : t[i] = x })

\* C14: filterFiles returns, in stored order, the records of the text search
\* that pass both categorical filters; displayFiles holds exactly those
\* records, and processedFiles of useFilters exactly the stored records that
\* pass both filters.
C14_CategoricalFiltersAnded ==
  \E searched \in {SearchedByFilterFiles} :
    \E called \in {filterFiles(files, searchTerm, personFilter, typeFilter)} :
      \E kept \in {SelectSeq(searched.val, KeptByFilters)} :
        /\ called.threw = searched.threw
        /\ ~called.threw => called.val = kept
        /\ Mounted => SameRecords(displayFiles.val, kept)
        /\ SameRecords(processedFiles, SelectSeq(files, KeptByFilters))

\* person at all and type at folder: the folders, and nothing else, are
\* displayed, while other records are stored
C14_FoldersOfAnyPerson ==
  /\ Mounted
  /\ personFilter = "all"
  /\ typeFilter = "folder"
  /\ searchTerm = ""
  /\ displayFiles.val # << >>
  /\ \A i \in 1..Len(displayFiles.val) : displayFiles.val[i].type = "folder"
  /\ \E k \in 1..Len(files) : files[k].type # "folder"

\* a sorts strictly before b by the field the key names: strings by their
\* lower-case forms, sizes by bytes, known dates by their timestamps.  Where
\* an Unknown date stands against a known one is left to C16.
KeyLess(a, b, by) ==
  CASE by = "name" -> StringLess(ToLowerCase(a.displayName), ToLowerCase(b.displayName))
    [] by = "person" -> StringLess(ToLowerCase(a.person), ToLowerCase(b.person))
    [] by = "type" -> StringLess(ToLowerCase(a.type), ToLowerCase(b.type))
    [] by = "size" -> a.sizeBytes < b.sizeBytes
    [] by = "date" -> /\ a.date # "Unknown"
                      /\ b.date # "Unknown"
                      /\ DateValue(a.date) < DateValue(b.date)

\* a and b have equal keys
KeyEqual(a, b, by) ==
  /\ ~KeyLess(a, b, by)
  /\ ~KeyLess(b, a, by)
  /\ by = "date" => (a.date = "Unknown") = (b.date = "Unknown")

\* output is input rearranged, in the order of the key (non-decreasing for
\* asc, non-increasing for desc), records of equal keys in their input order
SortedStably(input, output, by, order) ==
  /\ Len(output) = Len(input)
  /\ \E perm \in Permutations(1..Len(input)) :
       /\ \A i \in 1..Len(input) : output[i] = input[perm[i]]
       /\ \A i, j \in 1..Len(input) :
            i < j =>
              /\ IF order = "asc"
                 THEN ~KeyLess(output[j], output[i], by)
                 ELSE ~KeyLess(output[i], output[j], by)
              /\ KeyEqual(output[i], output[j], by) => perm[i] < perm[j]

\* C15: for every key and order, sortFiles returns the stored records as a
\* stably sorted permutation, and so is displayFiles of the records that
\* filterFiles returned.
C15_SortFilesStable ==
  /\ \A by \in SortKeys, order \in SortOrders :
       \E sorted \in {sortFiles(files, by, order)} :
         /\ ~sorted.threw
         /\ SortedStably(files, sorted.val, by, order)
  /\ Mounted =>
       SortedStably(filterFiles(files, searchTerm, personFilter, typeFilter).val,
                    displayFiles.val, sortBy, sortOrder)

\* in a sequence no record of Unknown date stands before a record of known
\* date
UnknownDatesLast(s) ==
  \A i, j \in 1..Len(s) :
    (i < j /\ s[i].date = "Unknown") => s[j].date = "Unknown"

\* C16: sorted by date, most recent first, every record of Unknown date comes
\* after every record of known date, in displayFiles of sortFiles and in
\* processedFiles of useFilters.
C16_UnknownDateSortsLast ==
  (sortBy = "date" /\ WellTyped) =>
    /\ sortOrder = "desc" => UnknownDatesLast(displayFiles.val)
    /\ UnknownDatesLast(processedFiles)

AlphabeticalOnce(options) ==
  \A i, j \in 1..Len(options) :
    i < j => /\ options[i] # options[j]
             /\ ~StringLess(ToLowerCase(StringOf(options[j])),
                            ToLowerCase(StringOf(options[i])))

CORS_PROXIES ==
  << "https://api.allorigins.win/get?url=",
     "https://corsproxy.io/?",
     "https://api.codetabs.com/v1/proxy?quest=",
     "https://cors-anywhere.herokuapp.com/" >>

\* how many calls of fetchDirectory a behaviour makes at most
MaxCalls == 2

\* the documents a proxy answers with: a page without any link, a page with
\* the navigation link alone, and two listings
ServedDocuments ==
  { << >>,
    << Row("Parent Directory", "../", "", "") >>,
    << FileRow("TJ003_deposition_part1.pdf", "2021-05-13 10:00", "12.7"),
       FileRow("Rachel_Gain_exhibit.pdf", "2022-02-02 12:00", "3M") >>,
    << Row("Parent Directory", "../", "", ""),
       FileRow("Motion_to_Dismiss.pdf", "2021-06-01 09:15", "1.5M") >> }

\* What becomes of a fetch through one proxy: the promise of fetch is
\* rejected, or it is fulfilled with a response of some status whose text is
\* empty, blank or markup.  text is the response text up to its first tag,
\* doc what DOMParser makes of the whole.
Responses ==
  { [fetch |-> "rejected", ok |-> FALSE, status |-> "", text |-> "", doc |-> << >>],
    [fetch |-> "fulfilled", ok |-> FALSE, status |-> "503: Service Unavailable",
     text |-> "<html>", doc |-> << >>],
    [fetch |-> "fulfilled", ok |-> TRUE, status |-> "200: OK", text |-> "", doc |-> << >>],
    [fetch |-> "fulfilled", ok |-> TRUE, status |-> "200: OK", text |-> " ", doc |-> << >>] }
  \cup { [fetch |-> "fulfilled", ok |-> TRUE, status |-> "200: OK",
          text |-> "<html>", doc |-> doc] : doc \in ServedDocuments }

\* the message of the error that the try block of fetchWithFallback raises
\* for a response (lines 36-51), or null when it raises none
ErrorOf(response) ==
  IF response.fetch = "rejected" THEN "Failed to fetch"
  ELSE IF ~response.ok THEN "HTTP " \o response.status
  ELSE IF response.text = "" \/ Len(Trim(response.text)) = 0
       THEN "Empty response from server"
  ELSE "null"

\* a call of fetchDirectory that has just entered fetchWithFallback and
\* awaits the first proxy
NewCall ==
  [pc |-> "awaiting", proxy |-> 1, contacted |-> <<1>>, failures |-> 0,
   lastError |-> "null", returned |-> "null", thrown |-> "null",
   settledBy |-> "null", outcome |-> "pending"]

\* fetchWithFallback without the loop: the first error is thrown
fetchWithFallbackOnce(call, response) ==
  IF ErrorOf(response) = "null"
  THEN [call EXCEPT !.pc = "returned", !.returned = response.doc,
                    !.lastError = "null", !.settledBy = response]
  ELSE [call EXCEPT !.pc = "threw", !.failures = @ + 1, !.lastError = "null",
                    !.thrown = ErrorOf(response), !.settledBy = response]

\* fetchWithFallback (lines 28-65) from the answer of the awaited proxy on:
\* the text is returned, or the error is caught and kept in lastError, and
\* then the next proxy is contacted or, none being left, lastError thrown.
\* lastError is the local of a call that is inside the loop.
fetchWithFallback(call, response) ==
  IF ErrorOf(response) = "null"
  THEN [call EXCEPT !.pc = "returned", !.returned = response.doc,
                    !.lastError = "null", !.settledBy = response]
  ELSE IF call.proxy < Len(CORS_PROXIES)
       THEN [call EXCEPT !.failures = @ + 1, !.lastError = ErrorOf(response),
                         !.proxy = @ + 1,
                         !.contacted = Append(@, call.proxy + 1)]
  ELSE [call EXCEPT !.pc = "threw", !.failures = @ + 1, !.lastError = "null",
                    !.thrown = ErrorOf(response), !.settledBy = response]

\* what the parser makes of each served document
Parsed == [doc \in ServedDocuments |-> parseDirectoryListing(doc, BASE_URL)]

NoFilesMessage ==
  "No files found in the directory listing. The page structure may have changed."

\* userMessage of the catch block of fetchDirectory (lines 102-112)
UserMessage(message) ==
  IF Includes(message, "Failed to fetch") \/ Includes(message, "CORS")
  THEN "Unable to access the file server. This may be due to network restrictions."
  ELSE IF Includes(message, "HTTP") THEN "Server error: " \o message
  ELSE IF Includes(message, "Empty response")
       THEN "The server returned an empty response. Please try again later."
  ELSE "Connection error: " \o message

\* new Date() at the moment a call settles: the number of that moment,
\* written out as the string form of a Date is
Now == ToString(Cardinality({ c \in 1..Len(calls) : calls[c].pc # "awaiting" }) + 1)

\* fetchDirectory after the parse without the return of lines 88-92, as the
\* single-proxy variant of the hook has it (lines 296-301)
fetchDirectoryParsedNoReturn(parsedFiles) ==
  [files |-> parsedFiles, error |-> error, lastFetch |-> Now,
   outcome |-> IF Len(parsedFiles) = 0 THEN "noFiles" ELSE "loaded"]

\* fetchDirectory from the parse to the end of its try block (lines 83-96):
\* the state it sets, and how the call ended
fetchDirectoryParsed(parsedFiles) ==
  IF Len(parsedFiles) = 0
  THEN [files |-> files, error |-> NoFilesMessage, lastFetch |-> lastFetch,
        outcome |-> "noFiles"]
  ELSE [files |-> parsedFiles, error |-> error, lastFetch |-> Now,
        outcome |-> "loaded"]

\* fetchDirectory up to its first await (lines 71-77): loading and error
\* are set and the first proxy is contacted
fetchDirectoryStart ==
  /\ loading' = TRUE
  /\ error' = "null"
  /\ calls' = Append(calls, NewCall)

\* the effect of the mount (lines 139-144): lastFetch being null, the cache
\* is not valid and fetchDirectory is called
MountFetch ==
  /\ calls = << >>
  /\ lastFetch = "null" \/ Len(files) = 0
  /\ fetchDirectoryStart
  /\ UNCHANGED <<files, lastFetch, parserVars, appVars>>

\* refreshData (lines 132-136)
RefreshData ==
  /\ calls # << >>
  /\ Len(calls) < MaxCalls
  /\ lastFetch' = "null"
  /\ fetchDirectoryStart
  /\ UNCHANGED <<files, parserVars, appVars>>

\* the awaited proxy of call c fails and the call contacts the next one
ProxyFails(c) ==
  /\ calls[c].pc = "awaiting"
  /\ \E response \in Responses :
       \E next \in {fetchWithFallback(calls[c], response)} :
         /\ next.pc = "awaiting"
         /\ calls' = [calls EXCEPT ![c] = next]
  /\ UNCHANGED <<files, loading, error, lastFetch, parserVars, appVars>>

\* the awaited proxy of call c answers with a text: fetchWithFallback
\* returns it, fetchDirectory parses it and runs to its end (lines 77-96,
\* 115-117)
FetchReturns(c) ==
  /\ calls[c].pc = "awaiting"
  /\ \E response \in Responses :
       \E next \in {fetchWithFallback(calls[c], response)} :
         /\ next.pc = "returned"
         /\ \E set \in {fetchDirectoryParsed(Parsed[next.returned])} :
              /\ files' = set.files
              /\ error' = set.error
              /\ lastFetch' = set.lastFetch
              /\ calls' = [calls EXCEPT ![c] = [next EXCEPT !.outcome = set.outcome]]
  /\ loading' = FALSE
  /\ UNCHANGED <<parserVars, appVars>>

\* the last proxy of call c fails: fetchWithFallback throws, and the catch
\* block of fetchDirectory reports it (lines 97-117)
FetchThrows(c) ==
  /\ calls[c].pc = "awaiting"
  /\ \E response \in Responses :
       \E next \in {fetchWithFallback(calls[c], response)} :
         /\ next.pc = "threw"
         /\ error' = UserMessage(next.thrown)
         /\ calls' = [calls EXCEPT ![c] = [next EXCEPT !.outcome = "failed"]]
  /\ loading' = FALSE
  /\ UNCHANGED <<files, lastFetch, parserVars, appVars>>

\* the hook is mounted; the parser runs inside fetchDirectory only
FetchInit ==
  /\ html = << >>
  /\ pc = "idle"
  /\ fileLinks = << >>
  /\ idx = 0
  /\ warned = << >>
  /\ outcome = << >>
  /\ files = << >>
  /\ AppUnmounted
  /\ HookIdle

FetchNext ==
  \/ MountFetch
  \/ RefreshData
  \/ \E c \in 1..Len(calls) : ProxyFails(c)
  \/ \E c \in 1..Len(calls) : FetchReturns(c)
  \/ \E c \in 1..Len(calls) : FetchThrows(c)

FetchSpec == FetchInit /\ [][FetchNext]_vars

(***************************************************************************)
(* Properties of the fetch                                                 *)
(***************************************************************************)

\* a response is OK and its text is not empty, a text of white space alone
\* being what the hook reports as an empty response
OkNonEmpty(response) ==
  /\ response.fetch = "fulfilled"
  /\ response.ok
  /\ Trim(response.text) # ""

\* the error a failed response stands for
FailureOf(response) ==
  CASE response.fetch = "rejected" -> "Failed to fetch"
    [] ~response.ok -> "HTTP " \o response.status
    [] OTHER -> "Empty response from server"

\* what a call has done so far is as the fallback is specified
AsSpecifiedSoFar(call) ==
  /\ call.contacted = [i \in 1..Len(call.contacted) |-> i]
  /\ Len(call.contacted) <= Len(CORS_PROXIES)
  /\ call.pc = "awaiting" =>
       /\ call.failures = Len(call.contacted) - 1
       /\ call.returned = "null"
       /\ call.thrown = "null"
  /\ call.pc = "returned" =>
       /\ OkNonEmpty(call.settledBy)
       /\ call.returned = call.settledBy.doc
       /\ call.failures = Len(call.contacted) - 1
       /\ call.thrown = "null"
  /\ call.pc = "threw" =>
       /\ ~OkNonEmpty(call.settledBy)
       /\ call.contacted = [i \in 1..Len(CORS_PROXIES) |-> i]
       /\ call.failures = Len(CORS_PROXIES)
       /\ call.thrown = FailureOf(call.settledBy)
       /\ call.returned = "null"

\* C19: every call of fetchWithFallback contacts the proxies in list order,
\* each at most once; it returns the text of the first proxy that answers OK
\* and non-empty, all proxies before it having failed, and throws the last
\* proxy's error only when all have failed; once it has returned or thrown
\* it contacts no proxy and ends no second time.
C19_FallbackInOrderUntilFirstAnswer ==
  /\ [](\A c \in 1..Len(calls) : AsSpecifiedSoFar(calls[c]))
  /\ [][\A c \in 1..Len(calls) :
          /\ calls[c].pc # "awaiting" =>
               /\ calls'[c].pc = calls[c].pc
               /\ calls'[c].contacted = calls[c].contacted
               /\ calls'[c].returned = calls[c].returned
               /\ calls'[c].thrown = calls[c].thrown
          /\ calls'[c].contacted # calls[c].contacted =>
               /\ calls'[c].contacted = Append(calls[c].contacted, calls[c].proxy + 1)
               /\ calls'[c].failures = calls[c].failures + 1]_vars

\* one call has returned the answer of the third proxy after two failures,
\* another has thrown after all four proxies failed
C19_ThirdAnsweredAndAllFailed ==
  \E c, d \in 1..Len(calls) :
    /\ calls[c].pc = "returned"
    /\ calls[c].contacted = <<1, 2, 3>>
    /\ calls[d].pc = "threw"
    /\ calls[d].contacted = <<1, 2, 3, 4>>

\* call c ends in this step with a text from which no record is extracted
ZeroRecordsStep(c) ==
  /\ calls[c].pc = "awaiting"
  /\ calls'[c].pc = "returned"
  /\ Len(parseDirectoryListing(calls'[c].returned, BASE_URL)) = 0

\* C20: when a call of fetchDirectory ends with a text from which no record
\* is extracted, the call ends without an exception, the message about the
\* page structure is set, files and lastFetch are what they were, and
\* loading is false.
C20_ZeroRecordsReported ==
  [][\A c \in 1..Len(calls) :
       ZeroRecordsStep(c) =>
         /\ calls'[c].outcome = "noFiles"
         /\ error' = NoFilesMessage
         /\ files' = files
         /\ lastFetch' = lastFetch
         /\ loading' = FALSE]_vars

\* after a load that stored files, a second call has ended with zero records
C20_ZeroRecordsAfterLoad ==
  /\ Len(calls) = 2
  /\ calls[1].outcome = "loaded"
  /\ calls[2].outcome = "noFiles"
  /\ files # << >>
  /\ error = NoFilesMessage
  /\ ~loading

\* a call of fetchDirectory has started and not yet settled
InFlight(c) == calls[c].pc = "awaiting"

\* C21: loading is true in every state in which some call of fetchDirectory
\* has started and not yet settled.
C21_LoadingWhileInFlight ==
  (\E c \in 1..Len(calls) : InFlight(c)) => loading = TRUE

\* the hook's state shows how a call ended: a load its files, with no error
\* and a time of load; a failure or an empty listing its message
ReflectsOutcomeOf(call) ==
  CASE call.outcome = "loaded" ->
         /\ files = parseDirectoryListing(call.returned, BASE_URL)
         /\ error = "null"
         /\ lastFetch # "null"
    [] call.outcome = "noFiles" -> error = NoFilesMessage
    [] call.outcome = "failed" ->
         \E response \in {call.settledBy} :
           error = UserMessage(FailureOf(response))

\* C22: once every call of fetchDirectory has settled, files, error and
\* lastFetch reflect the outcome of the call that was started last.
C22_LatestFetchWins ==
  (calls # << >> /\ \A c \in 1..Len(calls) : ~InFlight(c)) =>
    ReflectsOutcomeOf(calls[Len(calls)])

\* on the stored files useSearch and filterFiles do the same with a term:
\* both raise, or both return the same records in the same order
SearchesAgreeOn(term) ==
  \E hook \in {useSearch(files, term)} :
    \E call \in {filterFiles(files, term, "all", "all")} :
      /\ hook.threw = call.threw
      /\ ~hook.threw => hook.filteredFiles = call.val

\* C23: for the search term of the state and for every term a user types,
\* if the term is empty or has no white space at its ends, filteredFiles of
\* useSearch is what filterFiles returns with both filters at all.
C23_SearchesAgree ==
  /\ searchTerm = Trim(searchTerm) =>
       /\ searchResults.threw = SearchedByFilterFiles.threw
       /\ ~searchResults.threw => searchResults.filteredFiles = SearchedByFilterFiles.val
  /\ \A term \in SearchTerms : term = Trim(term) => SearchesAgreeOn(term)

\* the term doc, found in no name and no person, returns the documents
\* among other records: useSearch finds them by type too, filterFiles by the
\* type among the keywords
C23_FoundByTypeKeyword ==
  /\ Mounted
  /\ searchTerm = "doc"
  /\ personFilter = "all"
  /\ typeFilter = "all"
  /\ searchResults.filteredFiles = SearchedByFilterFiles.val
  /\ 0 < Len(searchResults.filteredFiles)
  /\ Len(searchResults.filteredFiles) < Len(files)
  /\ \A i \in 1..Len(searchResults.filteredFiles) :
       \E file \in {searchResults.filteredFiles[i]} :
         /\ file.type = "document"
         /\ ~Includes(ToLowerCase(file.filename), "doc")
         /\ ~Includes(ToLowerCase(file.displayName), "doc")
         /\ ~Includes(ToLowerCase(file.person), "doc")

====
